---- MODULE Spec2Model ----
(***************************************************************************)
(* One top-to-bottom execution of docs/examples/basic/many-neurons.ipynb.  *)
(* The notebook is a straight-line script of library calls grouped in      *)
(* cells.  The model keeps the cells as sequences of statements, in the    *)
(* order and with the arguments the notebook gives them, and interprets    *)
(* them one statement at a time.  The library behind the calls (network    *)
(* objects, the simulator, probes, sorted_neurons, rasterplot) is not part *)
(* of the source at hand; what a call does is modelled from its            *)
(* description, at the granularity the notebook observes.                  *)
(***************************************************************************)
EXTENDS Integers, Sequences, FiniteSets, TLC

VARIABLES pc, status, error, net, sim, indices, figures, trace

vars == <<pc, status, error, net, sim, indices, figures, trace>>

----------------------------------------------------------------------------
(* Bounds of the model *)

\* simulator steps per simulated second (1/dt); the notebook leaves dt to
\* the simulator's default
StepsPerSecond == 3

\* neurons 0..SpikeWindow-1 are the ones that may spike in the model
SpikeWindow == 2

\* sorted_neurons exchanges only neurons 0..SwapWindow-1 in the model
SwapWindow == 3

\* sorted_neurons makes at most this many exchanges in the model
MaxSwaps == 2

----------------------------------------------------------------------------
(* Constants of the notebook *)

N_NEURONS == 100

DIMENSIONS == 1

SYNAPSE_MS == 10

RUN_SECONDS == 1

ITERATIONS == 250

\* sample_every left at its default (None): a sample on every step
SAMPLE_EVERY_DEFAULT == 0

\* synapse left at its default (None) on a probe
NO_SYNAPSE == 0

----------------------------------------------------------------------------
(* Statements *)

Stmt(op, name, src, dst, n, m) ==
    [op |-> op, name |-> name, src |-> src, dst |-> dst, n |-> n, m |-> m,
     ctx |-> "none"]

\* "with model:" : every statement of the body runs in the network's context
WithModel(body) == [i \in DOMAIN body |-> [body[i] EXCEPT !.ctx = "model"]]

\* "with nengo.Simulator(model) as sim:" : build, body, then close on exit
WithSimulator(body) ==
    <<Stmt("Simulator", "sim", "model", "", 0, 0)>>
    \o [i \in DOMAIN body |-> [body[i] EXCEPT !.ctx = "sim"]]
    \o <<Stmt("exit_sim", "", "sim", "", 0, 0)>>

Cell0 == <<Stmt("import", "", "nengo", "", 0, 0)>>

Cell1 ==
    <<Stmt("Network", "model", "Many Neurons", "", 0, 0)>>
    \o WithModel(<<Stmt("Ensemble", "A", "", "", N_NEURONS, DIMENSIONS)>>)

\* variant of Cell2: the input built as a second population
Cell2_InputAsEnsemble ==
    WithModel(<<Stmt("Ensemble", "sin", "", "", N_NEURONS, DIMENSIONS)>>)

Cell2 == WithModel(<<Stmt("Node", "sin", "sin(8t)", "", 0, 0)>>)

Cell3 == WithModel(<<Stmt("Connection", "", "sin", "A", SYNAPSE_MS, 0)>>)

\* variant of Cell4: probes created with sample_every of two steps
Cell4_SampleEverySecondStep ==
    WithModel(<<Stmt("Probe", "sin_probe", "sin", "", NO_SYNAPSE, 2),
                Stmt("Probe", "A_probe", "A", "", SYNAPSE_MS, 2),
                Stmt("Probe", "A_spikes", "A.neurons", "", NO_SYNAPSE, 2)>>)

Cell4 ==
    WithModel(<<Stmt("Probe", "sin_probe", "sin", "", NO_SYNAPSE,
                     SAMPLE_EVERY_DEFAULT),
                Stmt("Probe", "A_probe", "A", "", SYNAPSE_MS,
                     SAMPLE_EVERY_DEFAULT),
                Stmt("Probe", "A_spikes", "A.neurons", "", NO_SYNAPSE,
                     SAMPLE_EVERY_DEFAULT)>>)

\* variant of Cell5: run for two seconds
Cell5_RunTwoSeconds ==
    WithSimulator(<<Stmt("run", "", "sim", "", RUN_SECONDS + 1, 0)>>)

\* variant of Cell5: sim.run dedented out of the with block
Cell5_RunAfterBlock ==
    WithSimulator(<<>>) \o <<Stmt("run", "", "sim", "", RUN_SECONDS, 0)>>

Cell5 == WithSimulator(<<Stmt("run", "", "sim", "", RUN_SECONDS, 0)>>)

Cell6 ==
    <<Stmt("plt", "figure", "", "", 0, 0),
      Stmt("plot", "", "A_probe", "A output", 0, 0),
      Stmt("plot", "", "sin_probe", "Input", 0, 0),
      Stmt("plt", "xlim", "", "", 0, 1),
      Stmt("plt", "legend", "", "", 0, 0),
      Stmt("plt", "figure", "", "", 0, 0),
      Stmt("rasterplot", "", "A_spikes", "all", 0, 0),
      Stmt("plt", "xlim", "", "", 0, 1)>>

\* variant of Cell7: a second simulator is built to sort with
Cell7_RebuildsSimulator ==
    WithSimulator(<<Stmt("sorted_neurons", "indices", "A", "sim",
                         ITERATIONS, 0)>>)
    \o <<Stmt("plt", "figure", "", "", 0, 0),
         Stmt("rasterplot", "", "A_spikes", "indices", 0, 0),
         Stmt("plt", "xlim", "", "", 0, 1)>>

Cell7 ==
    <<Stmt("sorted_neurons", "indices", "A", "sim", ITERATIONS, 0),
      Stmt("plt", "figure", "", "", 0, 0),
      Stmt("rasterplot", "", "A_spikes", "indices", 0, 0),
      Stmt("plt", "xlim", "", "", 0, 1)>>

\* variant of Program: the plot cell ahead of the run cell
Program_PlotBeforeRun ==
    Cell0 \o Cell1 \o Cell2 \o Cell3 \o Cell4 \o Cell6 \o Cell5 \o Cell7

\* variant of Program: the probe cell after the run cell
Program_ProbeAfterBuild ==
    Cell0 \o Cell1 \o Cell2 \o Cell3 \o Cell5 \o Cell4 \o Cell6 \o Cell7

Program ==
    Cell0 \o Cell1 \o Cell2 \o Cell3 \o Cell4 \o Cell5 \o Cell6 \o Cell7

\* variant of Handler: every statement wrapped in try/except: pass
Handler_Swallow(s) == "swallow"

\* what happens to an exception raised by a statement: no cell has a
\* try/except, so it leaves the cell
Handler(s) == "propagate"

----------------------------------------------------------------------------
(* The library, as the notebook uses it *)

NoNet == [created |-> FALSE, label |-> "", ensembles |-> {}, nodes |-> {},
          connections |-> {}, probes |-> {}]

NoSim == [built |-> FALSE, closed |-> FALSE, running |-> FALSE,
          probes |-> {}, n_steps |-> 0, target |-> 0, data |-> <<>>]

ProbeNames(ps) == {p.name : p \in ps}

ProbeNamed(ps, nm) == CHOOSE p \in ps : p.name = nm

\* objects a probe, a connection or sorted_neurons can refer to
Objects(n) ==
    {e.name : e \in n.ensembles}
    \cup {e.name \o ".neurons" : e \in n.ensembles}
    \cup {x.name : x \in n.nodes}

\* the ensemble named nm
EnsembleNamed(n, nm) == CHOOSE e \in n.ensembles : e.name = nm

\* the width of what a probe on target tg records: one column per neuron
\* for "<ensemble>.neurons", one per dimension for an ensemble, one for
\* the scalar function of the node
TargetSize(n, tg) ==
    IF \E e \in n.ensembles : tg = e.name \o ".neurons"
    THEN (CHOOSE e \in n.ensembles : tg = e.name \o ".neurons").n_neurons
    ELSE IF \E e \in n.ensembles : tg = e.name
    THEN EnsembleNamed(n, tg).dimensions
    ELSE 1

\* Simulator.run(t): the number of steps for t seconds
StepsFor(t) == t * StepsPerSecond

\* does probe p record on step k (k counted from 1)
SampleNow(p, k) == IF p.sample_every = 0 THEN TRUE ELSE k % p.sample_every = 0

\* what probe p records on step k when the neurons in spk spike
Sample(p, k, spk) == IF p.size > 1 THEN spk ELSE k

\* sim.trange(): one time point per step
TRange(s) == [k \in 1 .. s.n_steps |-> k]

\* sets of neurons that can spike on one step
SpikeChoices == {{}} \cup {{i} : i \in 0 .. (SpikeWindow - 1)}

\* np.arange(n)
Arange(n) == [k \in 1 .. n |-> k - 1]

SwapPairs == {<<i, j>> \in (0 .. (SwapWindow - 1)) \X (0 .. (SwapWindow - 1)) : i < j}

Min(a, b) == IF a < b THEN a ELSE b

SwapSeqs(limit) == UNION {[1 .. k -> SwapPairs] : k \in 0 .. Min(MaxSwaps, limit)}

Swap(ix, pr) ==
    [k \in DOMAIN ix |->
        IF k = pr[1] + 1 THEN ix[pr[2] + 1]
        ELSE IF k = pr[2] + 1 THEN ix[pr[1] + 1]
        ELSE ix[k]]

RECURSIVE ApplySwaps(_, _)
ApplySwaps(ix, sw) ==
    IF sw = <<>> THEN ix ELSE ApplySwaps(Swap(ix, Head(sw)), Tail(sw))

\* sim.data[probe] of a neuron probe as a matrix: cols names the neuron
\* behind each column, at[t] is the set of columns (from 0) with a spike in
\* sample t
Matrix(data, width) == [cols |-> Arange(width), at |-> data]

\* variant of SelectColumns that loses the last column
SelectColumns_DropLast(mx, ix) ==
    [cols |-> [k \in 1 .. (Len(ix) - 1) |-> mx.cols[ix[k] + 1]],
     at |-> [t \in DOMAIN mx.at |->
               {k \in 0 .. (Len(ix) - 2) : ix[k + 1] \in mx.at[t]}]]

\* mx[:, ix] : column k of the result is column ix[k] of mx
SelectColumns(mx, ix) ==
    [cols |-> [k \in 1 .. Len(ix) |-> mx.cols[ix[k] + 1]],
     at |-> [t \in DOMAIN mx.at |->
               {k \in 0 .. (Len(ix) - 1) : ix[k + 1] \in mx.at[t]}]]

\* rasterplot(time, spikes): one row of spike times per column of spikes
RasterRows(time, mx) ==
    [k \in 1 .. Len(mx.cols) |->
        {time[t] : t \in {u \in DOMAIN mx.at : (k - 1) \in mx.at[u]}}]

----------------------------------------------------------------------------
(* State *)

Init ==
    /\ pc = 1
    /\ status = "running"
    /\ error = [at |-> 0, op |-> ""]
    /\ net = NoNet
    /\ sim = NoSim
    /\ indices = <<>>
    /\ figures = <<>>
    /\ trace = <<>>

Cur == Program[pc]

\* the interpreter is between two statements
Ready == status = "running" /\ pc <= Len(Program) /\ ~sim.running

Finished == status = "running" /\ pc > Len(Program)

Terminated == Finished \/ status = "failed"

\* the record of a statement being executed: closed is the simulator's state
\* when it started, ok turns FALSE if it raised
Entry(s) ==
    [op |-> s.op, arg |-> s.src, n |-> s.n, closed |-> sim.closed, ok |-> TRUE]

Log(s) == trace' = Append(trace, Entry(s))

\* the statement's enclosing "with model:" can be entered
CtxOk(s) == s.ctx = "model" => net.created

Advance == pc' = pc + 1 /\ UNCHANGED <<status, error>>

----------------------------------------------------------------------------
(* Actions: one per kind of statement *)

\* the import cell
Import ==
    /\ Ready /\ Cur.op = "import"
    /\ Log(Cur) /\ Advance
    /\ UNCHANGED <<net, sim, indices, figures>>

\* model = nengo.Network(label=...)
CreateNetwork ==
    /\ Ready /\ Cur.op = "Network"
    /\ net' = [NoNet EXCEPT !.created = TRUE, !.label = Cur.src]
    /\ Log(Cur) /\ Advance
    /\ UNCHANGED <<sim, indices, figures>>

\* A = nengo.Ensemble(n_neurons, dimensions=d), inside "with model:"
CreateEnsemble ==
    /\ Ready /\ Cur.op = "Ensemble" /\ CtxOk(Cur) /\ Cur.ctx = "model"
    /\ net' = [net EXCEPT !.ensembles = @ \cup
                 {[name |-> Cur.name, n_neurons |-> Cur.n, dimensions |-> Cur.m]}]
    /\ Log(Cur) /\ Advance
    /\ UNCHANGED <<sim, indices, figures>>

\* sin = nengo.Node(function), inside "with model:"
CreateNode ==
    /\ Ready /\ Cur.op = "Node" /\ CtxOk(Cur) /\ Cur.ctx = "model"
    /\ net' = [net EXCEPT !.nodes = @ \cup {[name |-> Cur.name, output |-> Cur.src]}]
    /\ Log(Cur) /\ Advance
    /\ UNCHANGED <<sim, indices, figures>>

\* nengo.Connection(pre, post, synapse=...), inside "with model:"
CreateConnection ==
    /\ Ready /\ Cur.op = "Connection" /\ CtxOk(Cur) /\ Cur.ctx = "model"
    /\ Cur.src \in Objects(net) /\ Cur.dst \in Objects(net)
    /\ net' = [net EXCEPT !.connections = @ \cup
                 {[pre |-> Cur.src, post |-> Cur.dst, synapse |-> Cur.n]}]
    /\ Log(Cur) /\ Advance
    /\ UNCHANGED <<sim, indices, figures>>

\* p = nengo.Probe(target, ...), inside "with model:"
CreateProbe ==
    /\ Ready /\ Cur.op = "Probe" /\ CtxOk(Cur) /\ Cur.ctx = "model"
    /\ Cur.src \in Objects(net)
    /\ net' = [net EXCEPT !.probes = @ \cup
                 {[name |-> Cur.name, target |-> Cur.src, synapse |-> Cur.n,
                   sample_every |-> Cur.m, size |-> TargetSize(net, Cur.src)]}]
    /\ Log(Cur) /\ Advance
    /\ UNCHANGED <<sim, indices, figures>>

\* with nengo.Simulator(model) as sim: the simulator is built from the
\* network as it is now, with empty data for each of its probes
EnterSimulator ==
    /\ Ready /\ Cur.op = "Simulator" /\ net.created
    /\ sim' = [NoSim EXCEPT !.built = TRUE, !.probes = net.probes,
                            !.data = [p \in ProbeNames(net.probes) |-> <<>>]]
    /\ Log(Cur) /\ Advance
    /\ UNCHANGED <<net, indices, figures>>

\* sim.run(t) is called: the simulator starts stepping
RunCall ==
    /\ Ready /\ Cur.op = "run" /\ sim.built /\ ~sim.closed
    /\ sim' = [sim EXCEPT !.running = TRUE, !.target = sim.n_steps + StepsFor(Cur.n)]
    /\ Log(Cur)
    /\ UNCHANGED <<pc, status, error, net, indices, figures>>

\* one step of the simulator: every probe due on this step records a sample
SimStep ==
    /\ status = "running" /\ sim.running /\ sim.n_steps < sim.target
    /\ \E spk \in SpikeChoices :
         LET k == sim.n_steps + 1 IN
         sim' = [sim EXCEPT
                   !.n_steps = k,
                   !.data = [nm \in DOMAIN sim.data |->
                               LET p == ProbeNamed(sim.probes, nm) IN
                               IF SampleNow(p, k)
                               THEN Append(sim.data[nm], Sample(p, k, spk))
                               ELSE sim.data[nm]]]
    /\ UNCHANGED <<pc, status, error, net, indices, figures, trace>>

\* sim.run returns once the requested steps are done
RunReturn ==
    /\ status = "running" /\ sim.running /\ sim.n_steps >= sim.target
    /\ sim' = [sim EXCEPT !.running = FALSE]
    /\ Advance
    /\ UNCHANGED <<net, indices, figures, trace>>

\* leaving the "with nengo.Simulator" block closes the simulator
ExitSimulator ==
    /\ Ready /\ Cur.op = "exit_sim" /\ sim.built
    /\ sim' = [sim EXCEPT !.closed = TRUE]
    /\ Log(Cur) /\ Advance
    /\ UNCHANGED <<net, indices, figures>>

\* plt.figure(), plt.xlim(0, 1), plt.legend()
PltCall ==
    /\ Ready /\ Cur.op = "plt"
    /\ Log(Cur) /\ Advance
    /\ UNCHANGED <<net, sim, indices, figures>>

\* plt.plot(sim.trange(), sim.data[probe], label=...)
Plot ==
    /\ Ready /\ Cur.op = "plot" /\ sim.built
    /\ Cur.src \in DOMAIN sim.data
    /\ Len(TRange(sim)) = Len(sim.data[Cur.src])
    /\ figures' = Append(figures,
         [kind |-> "plot", probe |-> Cur.src, n_x |-> Len(TRange(sim)),
          n_y |-> Len(sim.data[Cur.src]), ydata |-> sim.data[Cur.src],
          cols |-> <<>>, rows |-> <<>>])
    /\ Log(Cur) /\ Advance
    /\ UNCHANGED <<net, sim, indices>>

\* the spike data a rasterplot statement passes on: sim.data[probe], or
\* sim.data[probe][:, indices]
Passed(nm, sel) ==
    LET mx == Matrix(sim.data[nm], ProbeNamed(sim.probes, nm).size) IN
    IF sel = "indices" THEN SelectColumns(mx, indices) ELSE mx

\* rasterplot(sim.trange(), sim.data[probe]) and
\* rasterplot(sim.trange(), sim.data[probe][:, indices])
RasterPlot ==
    /\ Ready /\ Cur.op = "rasterplot" /\ sim.built
    /\ Cur.src \in DOMAIN sim.data
    /\ Cur.dst = "indices" => indices # <<>>
    /\ Len(TRange(sim)) = Len(sim.data[Cur.src])
    /\ LET spikes == Passed(Cur.src, Cur.dst)
       IN figures' = Append(figures,
            [kind |-> "raster", probe |-> Cur.src, n_x |-> Len(TRange(sim)),
             n_y |-> Len(spikes.at), ydata |-> sim.data[Cur.src],
             cols |-> spikes.cols,
             rows |-> RasterRows(TRange(sim), spikes)])
    /\ Log(Cur) /\ Advance
    /\ UNCHANGED <<net, sim, indices>>

\* indices = sorted_neurons(A, sim, iterations=n): starting from the
\* ensemble's own order, neurons are exchanged pairwise
SortedNeurons ==
    /\ Ready /\ Cur.op = "sorted_neurons" /\ sim.built
    /\ Cur.src \in {e.name : e \in net.ensembles}
    /\ LET n == EnsembleNamed(net, Cur.src).n_neurons IN
       \E sw \in SwapSeqs(Cur.n * n) : indices' = ApplySwaps(Arange(n), sw)
    /\ Log(Cur) /\ Advance
    /\ UNCHANGED <<net, sim, figures>>

\* a library call raises: an exception leaving a "with nengo.Simulator"
\* block closes the simulator on its way out
Raise ==
    /\ status = "running" /\ pc <= Len(Program)
    /\ trace' = IF sim.running
                THEN [trace EXCEPT ![Len(trace)].ok = FALSE]
                ELSE Append(trace, [Entry(Cur) EXCEPT !.ok = FALSE])
    /\ sim' = IF Cur.ctx = "sim" /\ sim.built
              THEN [sim EXCEPT !.closed = TRUE, !.running = FALSE]
              ELSE sim
    /\ IF Handler(Cur) = "propagate"
       THEN /\ status' = "failed"
            /\ error' = [at |-> pc, op |-> Cur.op]
            /\ pc' = pc
       ELSE /\ pc' = pc + 1
            /\ UNCHANGED <<status, error>>
    /\ UNCHANGED <<net, indices, figures>>

Next ==
    \/ Import
    \/ CreateNetwork
    \/ CreateEnsemble
    \/ CreateNode
    \/ CreateConnection
    \/ CreateProbe
    \/ EnterSimulator
    \/ RunCall
    \/ SimStep
    \/ RunReturn
    \/ ExitSimulator
    \/ PltCall
    \/ Plot
    \/ RasterPlot
    \/ SortedNeurons
    \/ Raise

Spec == Init /\ [][Next]_vars

\* inside sim.run the simulator keeps stepping until the requested steps are
\* done, and then returns
FairSpec == Spec /\ WF_vars(SimStep) /\ WF_vars(RunReturn)

----------------------------------------------------------------------------
(* Properties *)

TraceOps == [i \in DOMAIN trace |-> trace[i].op]

IsPrefix(a, b) == Len(a) <= Len(b) /\ a = SubSeq(b, 1, Len(a))

IsStep(op) ==
    op \in {"Network", "Ensemble", "Node", "Connection", "Probe", "Simulator",
            "run", "plot", "rasterplot", "sorted_neurons"}

StepOps == SelectSeq(TraceOps, IsStep)

StepOrder ==
    <<"Network", "Ensemble", "Node", "Connection", "Probe", "Probe", "Probe",
      "Simulator", "run", "plot", "plot", "rasterplot", "sorted_neurons",
      "rasterplot">>

\* sim.run was called and has returned
RunReturned ==
    /\ ~sim.running
    /\ \E i \in DOMAIN trace : trace[i].op = "run" /\ trace[i].ok

ThreeProbes == {"sin_probe", "A_probe", "A_spikes"}

Rasters == SelectSeq(figures, LAMBDA f : f.kind = "raster")

\* n entries covering 0..n-1: each value once
IsPermutation(ix, n) ==
    /\ Len(ix) = n
    /\ {ix[k] : k \in 1 .. Len(ix)} = 0 .. (n - 1)

\* C1: the steps run in the notebook's order (network, ensemble, node,
\* connection, three probes, simulator, run, two line plots, raster, sort,
\* reordered raster): what has been executed so far is always an initial
\* part of that order, and a complete execution is exactly that order, each
\* step once.
C1_StepsInOrder ==
    /\ IsPrefix(StepOps, StepOrder)
    /\ Finished => StepOps = StepOrder

C1_Witness == Finished /\ Len(StepOps) = Len(StepOrder) /\ Len(figures) = 4

\* C2: the simulator is built with the three probes already attached, every
\* data lookup is for a probe the simulator was built with, and at the time
\* of the lookup that probe has recorded data.
C2_ProbesCollect ==
    /\ sim.built => ThreeProbes \subseteq ProbeNames(sim.probes)
    /\ \A i \in DOMAIN trace :
         trace[i].op \in {"plot", "rasterplot"} =>
            /\ sim.built
            /\ trace[i].arg \in ProbeNames(sim.probes)
            /\ Len(sim.data[trace[i].arg]) > 0

C2_Witness ==
    /\ Finished
    /\ \A nm \in ThreeProbes :
         \E i \in DOMAIN figures : figures[i].probe = nm /\ figures[i].n_y > 0

EverySecond(n) == [k \in 1 .. (n \div 2) |-> 2 * (k - 1)]

\* C3: the raster of the plot cell (the first raster drawn) shows every
\* second neuron of the ensemble, 50 of the 100.
C3_RasterEverySecondNeuron ==
    Len(Rasters) >= 1 =>
        /\ Len(Rasters[1].cols) = 50
        /\ Rasters[1].cols = EverySecond(100)

RunEntries == SelectSeq(trace, LAMBDA e : e.op = "run")

\* state part of C4
C4_RunInv ==
    /\ Len(RunEntries) <= 1
    /\ \A i \in DOMAIN RunEntries : RunEntries[i].n = 1
    /\ Finished => Len(RunEntries) = 1
    /\ sim.running => sim.n_steps <= 1 * StepsPerSecond
    /\ RunReturned => sim.n_steps = 1 * StepsPerSecond

\* C4: sim.run is called at most once, and once in a complete execution,
\* always for 1 second; while it runs the simulator never passes the
\* requested number of steps; when it has returned the simulator has made
\* exactly that many steps; and a run that has started ends.
C4_FixedDuration == [](C4_RunInv) /\ (sim.running ~> ~sim.running)

C4_Witness == RunReturned /\ status = "running" /\ sim.n_steps = StepsPerSecond

AfterStep1 == pc > Len(Cell0 \o Cell1)

AfterStep4 == pc > Len(Cell0 \o Cell1 \o Cell2 \o Cell3 \o Cell4)

\* C5: from the end of Step 1 on the network holds exactly one ensemble, of
\* 100 neurons and 1 dimension; from the end of Step 4 on it also holds one
\* node, one connection and three probes.
C5_SinglePopulation ==
    /\ AfterStep1 =>
         /\ Cardinality(net.ensembles) = 1
         /\ \A e \in net.ensembles : e.n_neurons = 100 /\ e.dimensions = 1
    /\ AfterStep4 =>
         /\ Cardinality(net.nodes) = 1
         /\ Cardinality(net.connections) = 1
         /\ Cardinality(net.probes) = 3

C5_Witness == Finished /\ Cardinality(net.ensembles) = 1 /\ Cardinality(net.probes) = 3

\* C6: the indices sorted_neurons returns are a permutation of 0..99, and
\* the reordered raster has one row per neuron, the row of neuron n being
\* the row neuron n has in the unsorted raster.
C6_ReorderOnly ==
    /\ indices # <<>> => IsPermutation(indices, 100)
    /\ Len(Rasters) >= 2 =>
         /\ Rasters[2].cols = indices
         /\ IsPermutation(Rasters[2].cols, 100)
         /\ Len(Rasters[2].rows) = 100
         /\ \A k \in 1 .. Len(Rasters[2].rows) :
              Rasters[2].rows[k] = Rasters[1].rows[Rasters[2].cols[k] + 1]

C6_Witness ==
    /\ Len(Rasters) >= 2
    /\ indices # Arange(100)
    /\ \E k \in 1 .. 100 : Rasters[2].rows[k] # Rasters[1].rows[k]

\* state part of C7
C7_RaiseInv ==
    /\ \A i \in DOMAIN trace :
         /\ trace[i].op = Program[i].op
         /\ ~trace[i].ok =>
              /\ i = Len(trace)
              /\ status = "failed"
              /\ error = [at |-> i, op |-> trace[i].op]
              /\ pc = i
    /\ status = "failed" => Len(trace) = pc /\ ~trace[pc].ok
    /\ Len(trace) <= pc

\* C7: a statement that raises is the last one executed: the execution has
\* failed at that statement, no statement after it is executed and none is
\* executed twice; a failed execution takes no further step.
C7_ErrorsPropagate == [](C7_RaiseInv) /\ [][status # "failed"]_vars

C7_Witness == status = "failed" /\ error.op = "run" /\ sim.n_steps = 1

\* state part of C8
C8_RunInv ==
    /\ \A i \in DOMAIN trace :
         trace[i].op = "run" => ~trace[i].closed /\ Program[i].ctx = "sim"
    /\ sim.running => ~sim.closed

\* C8: sim.run is only called inside the "with nengo.Simulator" block, on
\* an open simulator; the simulator only steps while open; and once it is
\* closed nothing about it changes any more.
C8_SteppedOnlyWhileOpen == [](C8_RunInv) /\ [][sim.closed => sim' = sim]_vars

C8_Witness ==
    /\ Finished
    /\ \E i \in DOMAIN trace : trace[i].op = "sorted_neurons" /\ trace[i].closed
    /\ \E i \in DOMAIN trace : trace[i].op = "rasterplot" /\ trace[i].closed

\* C9: once sim.run has returned, sim.trange() and the data of each of the
\* three probes have one sample per simulated step, and every figure was
\* drawn from as many time points as samples.
C9_SameLength ==
    /\ RunReturned =>
         \A nm \in ThreeProbes :
            /\ nm \in DOMAIN sim.data
            /\ Len(sim.data[nm]) = sim.n_steps
            /\ Len(TRange(sim)) = sim.n_steps
    /\ \A i \in DOMAIN figures : figures[i].n_x = figures[i].n_y

C9_Witness == RunReturned /\ Len(figures) = 4 /\ sim.n_steps > 1

\* state part of C10
C10_DataInv ==
    Len(Rasters) >= 2 =>
        /\ Rasters[1].ydata = Rasters[2].ydata
        /\ Rasters[2].ydata = sim.data[Rasters[2].probe]

\* C10: once sim.run has returned, no step changes the network, the number
\* of simulated steps or the recorded data, and the two rasters are drawn
\* from the same spike data.
C10_ResultsUnchanged ==
    /\ [](C10_DataInv)
    /\ [][RunReturned =>
            /\ net' = net
            /\ sim'.n_steps = sim.n_steps
            /\ sim'.data = sim.data]_vars

C10_Witness ==
    /\ Finished /\ RunReturned /\ Len(Rasters) = 2
    /\ \E t \in DOMAIN Rasters[1].ydata : Rasters[1].ydata[t] # {}

====
